---- MODULE Spec2Model ----
(***************************************************************************)
(* rpi-vidlooper (src/rpi_vidlooper/vidlooper.py): the VidLooper           *)
(* controller.  One main thread runs the constructor, start() and the      *)
(* destructor; the GPIO library's callback threads run switch_vid.  The    *)
(* GPIO channels, the VLC player and the file system are the environment.  *)
(***************************************************************************)
EXTENDS Integers, Sequences, FiniteSets, TLC

\* ------------------------------------------------------------------ bounds
MaxPins == 2        \* most pin pairs in a pin mapping
MaxVideos == 3      \* longest video list
NCallbacks == 2     \* callback threads that may run switch_vid at once
MaxStr == 6         \* longest --gpio-pins string

\* ------------------------------------------------------------------ values
None == "None"
LOW == "LOW"
HIGH == "HIGH"
NoPin == 0           \* out_pin = None: the pair has no output pin
Unlocked == -1       \* the Lock is free
Main == 0            \* the main thread; callback threads are 1..NCallbacks
Callbacks == 1..NCallbacks
Threads == {Main} \cup Callbacks

InPinIds == <<17, 22, 5, 6>>          \* input pins, in mapping order
OutPinIds == <<27, 23, 24, 25>>       \* output pins (LEDs)
VideoNames == <<"A.mp4", "B.mp4", "C.mp4", "D.mp4">>   \* files on disk
Missing == "X.mp4"                    \* a path that does not exist
ExistingFiles == {VideoNames[k] : k \in 1..Len(VideoNames)}

\* A pin mapping is the dict's items in insertion order.  Pin numbers are
\* taken up to renaming: pair k uses input InPinIds[k], and no output, an
\* output an earlier pair uses, or the next unused one.
PinMaps ==
    UNION {{[k \in 1..m |-> [in |-> InPinIds[k], out |-> o[k]]] :
               o \in {f \in [1..m -> {NoPin} \cup
                                     {OutPinIds[j] : j \in 1..MaxPins}] :
                        \A k \in 1..m : f[k] \in {NoPin} \cup
                                          {OutPinIds[j] : j \in 1..k}}} :
           m \in 1..MaxPins}

\* Explicit video lists, file names up to renaming: entry k is the missing
\* path or one of the first k names (so lists may repeat a video).
VideoLists ==
    UNION {{v \in [1..n -> {Missing} \cup
                           {VideoNames[j] : j \in 1..MaxVideos}] :
              \A k \in 1..n : v[k] \in {Missing} \cup
                                {VideoNames[j] : j \in 1..k}} :
           n \in 1..MaxVideos}

VARIABLES
    gpio_pins, videos, restart_on_press, loop, autostart, splash,  \* arguments
    pc, i, error, constructed,          \* main thread
    chan, events,                       \* GPIO library
    _active_vid, _mutex, _splashproc,   \* controller fields
    player_state, media, cmds,          \* VLC player
    tpc, tpin, ti, filename, differs, raised,   \* switch_vid invocations
    entry_chan,                         \* channels when the body was entered
    delCaller, cleanups, stops, kills,  \* teardown
    _player,                            \* the media player, None until created
    values, ppc, pairs, gpio_dict, perror, stored, namespace   \* _GpioParser

args == <<gpio_pins, videos, restart_on_press, loop, autostart, splash>>
mainv == <<pc, i, error, constructed>>
gpiov == <<chan, events>>
playerv == <<player_state, media, cmds>>
threadv == <<tpc, tpin, ti, filename, differs, raised, entry_chan>>
delv == <<delCaller, cleanups, stops, kills>>
parsev == <<values, ppc, pairs, gpio_dict, perror, stored, namespace>>
vars == <<args, mainv, gpiov, _active_vid, _mutex, _splashproc, playerv,
          threadv, delv, _player, parsev>>

\* ------------------------------------------------------------------ helpers
in_pins == [k \in 1..Len(gpio_pins) |-> gpio_pins[k].in]

\* tuple.index(pin): position of the first occurrence, 0-based in the source
\* and 1-based here; 0 when absent.
IndexOf(seq, x) ==
    IF \E k \in 1..Len(seq) : seq[k] = x
    THEN CHOOSE k \in 1..Len(seq) : seq[k] = x /\ \A j \in 1..(k-1) : seq[j] # x
    ELSE 0

OutPinsOf(pins) == {pins[k].out : k \in 1..Len(pins)} \ {NoPin}

AllPins == {InPinIds[k] : k \in 1..Len(InPinIds)}
           \cup {OutPinIds[k] : k \in 1..Len(OutPinIds)}

\* The controller before __init__: class attributes and fresh libraries.
Fresh ==
    /\ pc = "ctor" /\ i = 0 /\ error = None /\ constructed = FALSE
    /\ chan = [p \in AllPins |-> "unset"]
    /\ events = {}
    /\ _active_vid = None /\ _mutex = Unlocked /\ _splashproc = None
    /\ _player = None
    /\ player_state = "NothingSpecial" /\ media = None /\ cmds = <<>>
    /\ tpc = [t \in Threads |-> "idle"]
    /\ tpin = [t \in Threads |-> NoPin]
    /\ ti = [t \in Threads |-> 0]
    /\ filename = [t \in Threads |-> None]
    /\ differs = [t \in Threads |-> FALSE]
    /\ raised = [t \in Threads |-> None]
    /\ entry_chan = [p \in AllPins |-> "unset"]
    /\ delCaller = None /\ cleanups = 0 /\ stops = 0 /\ kills = 0

\* The option parser has run (or --gpio-pins was not given).
Parsed ==
    /\ values = <<>> /\ ppc = "done" /\ pairs = <<>> /\ gpio_dict = <<>>
    /\ perror = None /\ stored = FALSE /\ namespace = <<>>

Init ==
    /\ gpio_pins \in PinMaps
    /\ videos \in VideoLists
    /\ restart_on_press \in BOOLEAN
    /\ loop \in BOOLEAN
    /\ autostart \in BOOLEAN
    /\ splash \in {None, "splash.png"}
    /\ Fresh
    /\ Parsed

\* ------------------------------------------------------------------ __init__
\* An existence check that looks at the first video only.
AnyMissing_FirstOnly(vs) == vs[1] \notin ExistingFiles

AnyMissing(vs) == \E k \in 1..Len(vs) : vs[k] \notin ExistingFiles

\* The assertion with < for <=.
EnoughPins_Strict(vs, pins) == Len(vs) < Len(pins)

EnoughPins(vs, pins) == Len(vs) <= Len(pins)

Construct ==
    /\ pc = "ctor"
    /\ IF AnyMissing(videos)
       THEN pc' = "ctor_failed" /\ error' = "FileNotFoundError"
            /\ constructed' = FALSE
       ELSE IF ~EnoughPins(videos, gpio_pins)
       THEN pc' = "ctor_failed" /\ error' = "AssertionError"
            /\ constructed' = FALSE
       ELSE pc' = "setup" /\ error' = None /\ constructed' = TRUE
    /\ _player' = IF AnyMissing(videos) \/ ~EnoughPins(videos, gpio_pins)
                  THEN None ELSE "MediaPlayer"
    /\ i' = 1
    /\ UNCHANGED <<parsev, args, gpiov, _active_vid, _mutex, _splashproc, playerv,
                   threadv, delv>>

\* ------------------------------------------------------------------ GPIO
IsOutput(c) == c \in {LOW, HIGH}

\* GPIO.output(channel, level) on a channel set up as an output.
GpioOutput(ch, channel, level) == [ch EXCEPT ![channel] = level]

\* The pair loop of start(): input with pull-up, output initialised LOW.
SetupPair(ch, pair) ==
    IF pair.out = NoPin
    THEN [ch EXCEPT ![pair.in] = "IN"]
    ELSE [ch EXCEPT ![pair.in] = "IN", ![pair.out] = LOW]

\* ------------------------------------------------------------------ start()
SetupPin ==
    /\ pc = "setup"
    /\ chan' = SetupPair(chan, gpio_pins[i])
    /\ IF i < Len(gpio_pins)
       THEN i' = i + 1 /\ pc' = pc
       ELSE i' = 1 /\ pc' = "autostart"
    /\ UNCHANGED <<parsev, args, _player, error, constructed, events, _active_vid, _mutex,
                   _splashproc, playerv, threadv, delv>>

\* autostart is off: nothing is launched.
SkipAutostart ==
    /\ pc = "autostart"
    /\ ~autostart
    /\ pc' = "register" /\ i' = 1
    /\ UNCHANGED <<parsev, args, _player, error, constructed, gpiov, _active_vid, _mutex,
                   _splashproc, playerv, threadv, delv>>

\* autostart with a splash image: Popen is not imported by the module, so the
\* call raises NameError; the statement is outside the try of start().
LaunchSplash ==
    /\ pc = "autostart"
    /\ autostart /\ splash # None
    /\ pc' = "exited" /\ error' = "NameError"
    /\ UNCHANGED <<parsev, args, _player, i, constructed, gpiov, _active_vid, _mutex,
                   _splashproc, playerv, threadv, delv>>

\* autostart without a splash image: switch_vid(in_pins[0]) on the main thread.
AutostartSwitch ==
    /\ pc = "autostart"
    /\ autostart /\ splash = None
    /\ pc' = "autostart_call"
    /\ tpc' = [tpc EXCEPT ![Main] = "acquire"]
    /\ tpin' = [tpin EXCEPT ![Main] = in_pins[1]]
    /\ raised' = [raised EXCEPT ![Main] = None]
    /\ UNCHANGED <<parsev, args, _player, i, error, constructed, gpiov, _active_vid, _mutex,
                   _splashproc, playerv, ti, filename, differs, entry_chan,
                   delv>>

AutostartReturn ==
    /\ pc = "autostart_call"
    /\ tpc[Main] = "idle"
    /\ IF raised[Main] = None
       THEN pc' = "register" /\ i' = 1 /\ error' = error
       ELSE pc' = "exited" /\ i' = i /\ error' = raised[Main]
    /\ UNCHANGED <<parsev, args, _player, constructed, gpiov, _active_vid, _mutex,
                   _splashproc, playerv, threadv, delv>>

\* GPIO.add_event_detect(pin, FALLING, callback=self.switch_vid)
RegisterPin ==
    /\ pc = "register"
    /\ events' = events \cup {in_pins[i]}
    /\ IF i < Len(gpio_pins)
       THEN i' = i + 1 /\ pc' = pc
       ELSE i' = 1 /\ pc' = "sleep"
    /\ UNCHANGED <<parsev, args, _player, error, constructed, chan, _active_vid, _mutex,
                   _splashproc, playerv, threadv, delv>>

\* time.sleep(0.5) returns.
Wake ==
    /\ pc = "sleep"
    /\ pc' = "poll"
    /\ UNCHANGED <<parsev, args, _player, i, error, constructed, gpiov, _active_vid, _mutex,
                   _splashproc, playerv, threadv, delv>>

\* The reset condition without its loop test.
StreamEnded_IgnoresLoop(lp, state) == state = "Ended"

\* The condition of the idle loop's reset.
StreamEnded(lp, state) == ~lp /\ state = "Ended"

PollCheck ==
    /\ pc = "poll"
    /\ IF StreamEnded(loop, player_state)
       THEN pc' = "poll_out" /\ i' = 1
       ELSE pc' = "sleep" /\ i' = i
    /\ UNCHANGED <<parsev, args, _player, error, constructed, gpiov, _active_vid, _mutex,
                   _splashproc, playerv, threadv, delv>>

\* for out_pin in self.gpio_pins.values(): one pair per step.
PollOutput ==
    /\ pc = "poll_out"
    /\ chan' = IF gpio_pins[i].out # NoPin
               THEN GpioOutput(chan, gpio_pins[i].out, LOW)
               ELSE chan
    /\ IF i < Len(gpio_pins)
       THEN i' = i + 1 /\ pc' = pc
       ELSE i' = 1 /\ pc' = "poll_clear"
    /\ UNCHANGED <<parsev, args, _player, error, constructed, events, _active_vid, _mutex,
                   _splashproc, playerv, threadv, delv>>

PollClear ==
    /\ pc = "poll_clear"
    /\ _active_vid' = None
    /\ pc' = "sleep"
    /\ UNCHANGED <<parsev, args, _player, i, error, constructed, gpiov, _mutex, _splashproc,
                   playerv, threadv, delv>>

\* ------------------------------------------------------------------ exits
InTry == pc \in {"sleep", "poll", "poll_out", "poll_clear"}
BeforeTry == pc \in {"setup", "autostart", "autostart_call", "register"}

\* KeyboardInterrupt before the try statement: nothing catches it.  A with
\* block the main thread is in releases the mutex on the way out.
InterruptEarly ==
    /\ BeforeTry
    /\ pc' = "exited" /\ error' = "KeyboardInterrupt"
    /\ tpc' = [tpc EXCEPT ![Main] = "idle"]
    /\ _mutex' = IF _mutex = Main THEN Unlocked ELSE _mutex
    /\ UNCHANGED <<parsev, args, _player, i, constructed, gpiov, _active_vid, _splashproc,
                   playerv, tpin, ti, filename, differs, raised, entry_chan,
                   delv>>

\* KeyboardInterrupt inside the try statement: finally calls self.__del__().
InterruptLoop ==
    /\ InTry
    /\ pc' = "del_cleanup" /\ error' = "KeyboardInterrupt"
    /\ delCaller' = "finally"
    /\ UNCHANGED <<parsev, args, _player, i, constructed, gpiov, _active_vid, _mutex,
                   _splashproc, playerv, threadv, cleanups, stops, kills>>

\* ------------------------------------------------------------------ __del__
DelCleanup ==
    /\ pc = "del_cleanup"
    /\ chan' = [p \in AllPins |-> "unset"]
    /\ events' = {}
    /\ cleanups' = cleanups + 1
    /\ pc' = "del_stop"
    /\ UNCHANGED <<parsev, args, _player, i, error, constructed, _active_vid, _mutex,
                   _splashproc, playerv, threadv, delCaller, stops, kills>>

\* self._kill_process() stops the player (self._player is set by the
\* constructor); then the splash process group is killed if one was launched.
DelStop ==
    /\ pc = "del_stop"
    /\ player_state' = "Stopped"
    /\ stops' = stops + 1
    /\ kills' = IF _splashproc # None THEN kills + 1 ELSE kills
    /\ pc' = IF delCaller = "finally" THEN "exited" ELSE "dead"
    /\ UNCHANGED <<parsev, args, _player, i, error, constructed, gpiov, _active_vid, _mutex,
                   _splashproc, media, cmds, threadv, delCaller, cleanups>>

\* The exception has left start(); the interpreter drops the controller and
\* runs its finalizer.
Destroy ==
    /\ pc = "exited"
    /\ pc' = "del_cleanup"
    /\ delCaller' = "gc"
    /\ UNCHANGED <<parsev, args, _player, i, error, constructed, gpiov, _active_vid, _mutex,
                   _splashproc, playerv, threadv, cleanups, stops, kills>>

\* Finalizers of objects alive at interpreter exit are not guaranteed to run.
ExitWithoutDel ==
    /\ pc = "exited"
    /\ pc' = "dead"
    /\ UNCHANGED <<parsev, args, _player, i, error, constructed, gpiov, _active_vid, _mutex,
                   _splashproc, playerv, threadv, delv>>

\* The constructor raised before self.debug was assigned: the finalizer of
\* the discarded object fails on its first line and releases nothing.
DestroyFailed ==
    /\ pc = "ctor_failed"
    /\ pc' = "dead"
    /\ UNCHANGED <<parsev, args, _player, i, error, constructed, gpiov, _active_vid, _mutex,
                   _splashproc, playerv, threadv, delv>>

\* ------------------------------------------------------------------ switch_vid
\* A falling edge on a registered pin: the library calls switch_vid(pin).
Press(t, pin) ==
    /\ pc # "dead"
    /\ tpc[t] = "idle"
    /\ pin \in events
    /\ tpc' = [tpc EXCEPT ![t] = "acquire"]
    /\ tpin' = [tpin EXCEPT ![t] = pin]
    /\ raised' = [raised EXCEPT ![t] = None]
    /\ UNCHANGED <<parsev, args, _player, mainv, gpiov, _active_vid, _mutex, _splashproc,
                   playerv, ti, filename, differs, entry_chan, delv>>

\* A lock that never blocks.
CanAcquire_Always(m) == TRUE

\* Lock.acquire(): enabled when the lock is free.
CanAcquire(m) == m = Unlocked

Acquire(t) ==
    /\ pc # "dead"
    /\ tpc[t] = "acquire"
    /\ CanAcquire(_mutex)
    /\ _mutex' = t
    /\ tpc' = [tpc EXCEPT ![t] = "outputs"]
    /\ ti' = [ti EXCEPT ![t] = 1]
    /\ cmds' = <<>>
    /\ entry_chan' = chan
    /\ UNCHANGED <<parsev, args, _player, mainv, gpiov, _active_vid, _splashproc,
                   player_state, media, tpin, filename, differs, raised, delv>>

\* A level that never turns an output off.
LevelFor_AlwaysHigh(in_pin, pin) == HIGH

\* GPIO.HIGH if in_pin == pin else GPIO.LOW
LevelFor(in_pin, pin) == IF in_pin = pin THEN HIGH ELSE LOW

\* One pair of the output loop per step.  GPIO.output raises RuntimeError on
\* a channel that is not set up as an output (after GPIO.cleanup()).
Output(t) ==
    /\ pc # "dead"
    /\ tpc[t] = "outputs"
    /\ LET pair == gpio_pins[ti[t]]
           last == ti[t] = Len(gpio_pins)
       IN  IF pair.out # NoPin /\ ~IsOutput(chan[pair.out])
           THEN /\ raised' = [raised EXCEPT ![t] = "RuntimeError"]
                /\ tpc' = [tpc EXCEPT ![t] = "release"]
                /\ UNCHANGED <<chan, ti>>
           ELSE /\ chan' = IF pair.out # NoPin
                           THEN GpioOutput(chan, pair.out,
                                           LevelFor(pair.in, tpin[t]))
                           ELSE chan
                /\ ti' = [ti EXCEPT ![t] = IF last THEN 1 ELSE @ + 1]
                /\ tpc' = [tpc EXCEPT ![t] = IF last THEN "switch" ELSE @]
                /\ raised' = raised
    /\ UNCHANGED <<parsev, args, _player, mainv, events, _active_vid, _mutex, _splashproc,
                   playerv, tpin, filename, differs, entry_chan, delv>>

\* The comparison without restart_on_press.
MustSwitch_NoRestart(f, active, restart) == f # active

\* filename != self._active_vid or self.restart_on_press
MustSwitch(f, active, restart) == f # active \/ restart

\* The player calls of the if block, in program order: _kill_process(),
\* media_new + set_media, play(), and with loop the repeat option.
Commands(lp) ==
    IF lp THEN <<"stop", "load", "play", "repeat">>
    ELSE <<"stop", "load", "play">>

\* filename = self.videos[self.in_pins.index(pin)], the comparison and the
\* if block.  The list lookup raises IndexError past the end of the list.
Switch(t) ==
    /\ pc # "dead"
    /\ tpc[t] = "switch"
    /\ LET k == IndexOf(in_pins, tpin[t])
       IN  IF k > Len(videos)
           THEN /\ raised' = [raised EXCEPT ![t] = "IndexError"]
                /\ UNCHANGED <<filename, differs, _active_vid, playerv>>
           ELSE /\ filename' = [filename EXCEPT ![t] = videos[k]]
                /\ differs' = [differs EXCEPT ![t] = videos[k] # _active_vid]
                /\ raised' = raised
                /\ IF MustSwitch(videos[k], _active_vid, restart_on_press)
                   THEN /\ cmds' = cmds \o Commands(loop)
                        /\ player_state' = "Playing"
                        /\ media' = videos[k]
                        /\ _active_vid' = videos[k]
                   ELSE UNCHANGED <<_active_vid, playerv>>
    /\ tpc' = [tpc EXCEPT ![t] = "release"]
    /\ UNCHANGED <<parsev, args, _player, mainv, gpiov, _mutex, _splashproc, tpin, ti,
                   entry_chan, delv>>

\* A release that is skipped when the body raised.
WithExit_OnlyOnSuccess(m, exc) == IF exc = None THEN Unlocked ELSE m

\* Lock.__exit__: the lock is released whatever exception left the block.
WithExit(m, exc) == Unlocked

\* The with block is left, normally or by an exception: Lock.release().
\* The invocation's locals are gone; only the main thread's caller sees an
\* exception.
Release(t) ==
    /\ pc # "dead"
    /\ tpc[t] = "release"
    /\ _mutex' = WithExit(_mutex, raised[t])
    /\ tpc' = [tpc EXCEPT ![t] = "idle"]
    /\ tpin' = [tpin EXCEPT ![t] = NoPin]
    /\ filename' = [filename EXCEPT ![t] = None]
    /\ differs' = [differs EXCEPT ![t] = FALSE]
    /\ raised' = [raised EXCEPT ![t] = IF t = Main THEN @ ELSE None]
    /\ cmds' = <<>>
    /\ entry_chan' = [p \in AllPins |-> "unset"]
    /\ UNCHANGED <<parsev, args, _player, mainv, gpiov, _active_vid, _splashproc,
                   player_state, media, ti, delv>>

\* ------------------------------------------------------------------ player
\* The stream reaches its end: get_state() reports vlc.State.Ended.
StreamEnds ==
    /\ pc # "dead"
    /\ player_state = "Playing"
    /\ player_state' = "Ended"
    /\ UNCHANGED <<parsev, args, _player, mainv, gpiov, _active_vid, _mutex, _splashproc,
                   media, cmds, threadv, delv>>

\* ------------------------------------------------------------------ system
Next ==
    \/ Construct
    \/ SetupPin
    \/ SkipAutostart
    \/ LaunchSplash
    \/ AutostartSwitch
    \/ AutostartReturn
    \/ RegisterPin
    \/ Wake
    \/ PollCheck
    \/ PollOutput
    \/ PollClear
    \/ InterruptEarly
    \/ InterruptLoop
    \/ DelCleanup
    \/ DelStop
    \/ Destroy
    \/ ExitWithoutDel
    \/ DestroyFailed
    \/ \E t \in Callbacks : \E pin \in events : Press(t, pin)
    \/ \E t \in Threads : Acquire(t)
    \/ \E t \in Threads : Output(t)
    \/ \E t \in Threads : Switch(t)
    \/ \E t \in Threads : Release(t)
    \/ StreamEnds

Spec == Init /\ [][Next]_vars

\* ------------------------------------------------------------------ threads
\* The steps of thread t inside switch_vid.
ThreadStep(t) == Acquire(t) \/ Output(t) \/ Switch(t) \/ Release(t)

\* One pin map with a pin beyond the video list, one accepted and one
\* rejected video list, without loop.
FairInit ==
    /\ gpio_pins = <<[in |-> 17, out |-> 27], [in |-> 22, out |-> NoPin]>>
    /\ videos \in {<<"A.mp4">>, <<"A.mp4", "B.mp4", "C.mp4">>}
    /\ restart_on_press = FALSE /\ loop = FALSE
    /\ autostart \in BOOLEAN
    /\ splash \in {None, "splash.png"}
    /\ Fresh /\ Parsed

\* Every thread that can take a step of switch_vid eventually takes it: the
\* operating system schedules each runnable thread.
FairSpec ==
    FairInit /\ [][Next]_vars
    /\ \A t \in Threads : WF_vars(ThreadStep(t))

\* ------------------------------------------------------------------ _GpioParser
\* The --gpio-pins option string is a sequence of characters.
Alphabet == {"1", "2", ",", ":", "x"}
Strings == UNION {[1..n -> Alphabet] : n \in 0..MaxStr}

\* str.split(sep): the pieces between the separators, empty pieces included.
RECURSIVE Split(_, _)
Split(s, sep) ==
    IF \E k \in 1..Len(s) : s[k] = sep
    THEN LET k == CHOOSE j \in 1..Len(s) :
                     s[j] = sep /\ \A h \in 1..(j-1) : s[h] # sep
         IN  <<SubSeq(s, 1, k - 1)>> \o Split(SubSeq(s, k + 1, Len(s)), sep)
    ELSE <<s>>

\* int(field) succeeds on a non-empty run of decimal digits.
IsInt(f) == Len(f) > 0 /\ \A k \in 1..Len(f) : f[k] \in {"1", "2"}

DigitValue(c) == IF c = "1" THEN 1 ELSE 2

RECURSIVE ToInt(_)
ToInt(f) ==
    IF Len(f) = 0 THEN 0
    ELSE 10 * ToInt(SubSeq(f, 1, Len(f) - 1)) + DigitValue(f[Len(f)])

\* if 0 == len(pair_split) > 2: the chained comparison of line 24.
BadFormat(n) == 0 = n /\ n > 2

\* A membership test that never finds the key.
HasKey_Never(d, key) == FALSE

\* in_pin in gpio_dict
HasKey(d, key) == \E k \in 1..Len(d) : d[k].in = key

\* gpio_dict[in_pin] = out_pin: a new key goes last, an old key keeps its place.
DictSet(d, key, val) ==
    IF \E k \in 1..Len(d) : d[k].in = key
    THEN [k \in 1..Len(d) |-> IF d[k].in = key
                              THEN [in |-> key, out |-> val] ELSE d[k]]
    ELSE Append(d, [in |-> key, out |-> val])

\* The controller's variables, which the parser does not touch.
ctlv == <<args, mainv, gpiov, _active_vid, _mutex, _splashproc, playerv,
          threadv, delv, _player>>

\* pin_pairs = values.split(',')
ParseSplit ==
    /\ ppc = "start"
    /\ pairs' = Split(values, ",")
    /\ gpio_dict' = <<>>
    /\ ppc' = "loop"
    /\ UNCHANGED <<ctlv, values, perror, stored, namespace>>

\* One iteration of the loop over pin_pairs.
ParsePair ==
    /\ ppc = "loop"
    /\ pairs # <<>>
    /\ LET pair_split == Split(Head(pairs), ":")
           fail(msg) == /\ perror' = msg
                        /\ ppc' = "done"
                        /\ UNCHANGED <<pairs, gpio_dict>>
       IN  IF BadFormat(Len(pair_split))
           THEN fail("Invalid GPIO pin format")
           ELSE IF ~IsInt(pair_split[1])
           THEN fail("GPIO input pin must be numeric integer")
           ELSE IF Len(pair_split) >= 2 /\ ~IsInt(pair_split[2])
           THEN fail("GPIO output pin must be numeric integer")
           ELSE IF HasKey(gpio_dict, ToInt(pair_split[1]))
           THEN fail("Duplicate GPIO input pin")
           ELSE /\ gpio_dict' =
                     DictSet(gpio_dict, ToInt(pair_split[1]),
                             IF Len(pair_split) >= 2
                             THEN ToInt(pair_split[2]) ELSE NoPin)
                /\ pairs' = Tail(pairs)
                /\ UNCHANGED <<ppc, perror>>
    /\ UNCHANGED <<ctlv, values, stored, namespace>>

\* setattr(namespace, self.dest, gpio_dict)
ParseStore ==
    /\ ppc = "loop"
    /\ pairs = <<>>
    /\ namespace' = gpio_dict
    /\ stored' = TRUE
    /\ ppc' = "done"
    /\ UNCHANGED <<ctlv, values, pairs, gpio_dict, perror>>

ParseInit ==
    /\ values \in Strings
    /\ ppc = "start" /\ pairs = <<>> /\ gpio_dict = <<>>
    /\ perror = None /\ stored = FALSE /\ namespace = <<>>
    /\ gpio_pins = <<[in |-> 17, out |-> 27]>>
    /\ videos = <<"A.mp4">>
    /\ restart_on_press = FALSE /\ loop = TRUE /\ autostart = TRUE
    /\ splash = None
    /\ Fresh

ParseNext == ParseSplit \/ ParsePair \/ ParseStore

SpecParse == ParseInit /\ [][ParseNext]_vars

\* ------------------------------------------------------------------ properties
\* Thread t is inside the with block of switch_vid.
InBody(t) == tpc[t] \in {"outputs", "switch", "release"}

\* The video at pin's ordinal position, None when the list is too short.
Resolved(pin) ==
    IF IndexOf(in_pins, pin) \in 1..Len(videos)
    THEN videos[IndexOf(in_pins, pin)]
    ELSE None

\* The output pin paired with an input pin.
OutOf(pin) == gpio_pins[IndexOf(in_pins, pin)].out

\* Thread t has run the body to its end without an error.
BodyDone(t) == tpc[t] = "release" /\ raised[t] = None

\* C1: a switch_vid(pin) call whose video differs from the active one ends
\* with the old session stopped before the new one was loaded and played,
\* the active video equal to pin's video, pin's own output HIGH and every
\* other configured output LOW (stated for calls that end before teardown).
C1_SwitchLightsOnlyNewPin ==
    \A t \in Threads :
        (BodyDone(t) /\ differs[t] /\ cleanups = 0) =>
            /\ Len(cmds) >= 3
            /\ SubSeq(cmds, 1, 3) = <<"stop", "load", "play">>
            /\ _active_vid = Resolved(tpin[t])
            /\ OutOf(tpin[t]) # NoPin => chan[OutOf(tpin[t])] = HIGH
            /\ \A o \in OutPinsOf(gpio_pins) \ {OutOf(tpin[t])} : chan[o] = LOW

\* C2: with restart-on-press disabled, a switch_vid(pin) call whose video
\* is the active video ends with every output pin at the level it had when
\* the call began, no player command issued and the active video unchanged
\* (stated for looping enabled, where the idle loop writes nothing, and for
\* calls that end before teardown).
C2_SameVideoPressIsNoOp ==
    \A t \in Threads :
        (BodyDone(t) /\ ~restart_on_press /\ ~differs[t]
           /\ filename[t] # None /\ loop /\ cleanups = 0) =>
            /\ chan = entry_chan
            /\ cmds = <<>>
            /\ _active_vid = filename[t]

\* C3: with restart-on-press enabled, a switch_vid(pin) call whose video is
\* the active video issues stop, load, play in that order and ends its body
\* with that video active and playing.
C3_RestartOnPress ==
    [][\A t \in Threads :
         (tpc[t] = "switch" /\ tpc'[t] = "release" /\ restart_on_press
            /\ Resolved(tpin[t]) # None /\ Resolved(tpin[t]) = _active_vid) =>
             /\ Len(cmds') >= 3
             /\ SubSeq(cmds', Len(cmds) + 1, Len(cmds) + 3)
                  = <<"stop", "load", "play">>
             /\ _active_vid' = Resolved(tpin[t])
             /\ media' = Resolved(tpin[t])
             /\ player_state' = "Playing"]_vars

\* A restart has happened: the body ended on the video that was active.
C3_Witness ==
    \E t \in Threads :
        /\ BodyDone(t) /\ restart_on_press /\ ~differs[t]
        /\ filename[t] # None /\ filename[t] = _active_vid
        /\ cmds # <<>>

\* C4: at most one invocation is inside the body of switch_vid, it holds the
\* mutex, and every other invocation is outside the body.
C4_MutualExclusion ==
    /\ \A t1, t2 \in Threads : (InBody(t1) /\ InBody(t2)) => t1 = t2
    /\ \A t \in Threads : InBody(t) => _mutex = t

\* One invocation is in the body while another waits for the mutex.
C4_Witness ==
    \E t1, t2 \in Threads :
        t1 # t2 /\ tpc[t1] = "switch" /\ tpc[t2] = "acquire"

\* C5: the active video changes only in a step of switch_vid made by the
\* thread that holds the mutex.
C5_ActiveVidOnlyUnderMutex ==
    [][_active_vid' # _active_vid =>
         \E t \in Threads :
             tpc[t] = "switch" /\ tpc'[t] = "release" /\ _mutex = t]_vars

\* C6: a poll with looping disabled and the stream ended writes LOW to the
\* output pin of every pair, in order, and then clears the active video; any
\* other poll goes back to sleep with the outputs and the active video as
\* they were.
C6_PollReset ==
    [][/\ (pc = "poll" /\ pc' \in {"sleep", "poll_out"}) =>
            IF ~loop /\ player_state = "Ended"
            THEN pc' = "poll_out" /\ i' = 1
            ELSE pc' = "sleep" /\ chan' = chan /\ _active_vid' = _active_vid
       /\ (pc = "poll_out" /\ pc' \in {"poll_out", "poll_clear"}
             /\ <<pc, i>> # <<pc', i'>>) =>
            /\ gpio_pins[i].out # NoPin => chan'[gpio_pins[i].out] = LOW
            /\ \A o \in AllPins \ {gpio_pins[i].out} : chan'[o] = chan[o]
            /\ _active_vid' = _active_vid
            /\ IF i < Len(gpio_pins)
               THEN pc' = "poll_out" /\ i' = i + 1
               ELSE pc' = "poll_clear"
       /\ (pc = "poll_clear" /\ pc' = "sleep") =>
            _active_vid' = None /\ chan' = chan]_vars

\* The reset has driven a lit output LOW and is about to clear the video.
C6_Witness ==
    /\ pc = "poll_clear" /\ ~loop /\ player_state = "Ended"
    /\ _active_vid # None
    /\ OutPinsOf(gpio_pins) # {}
    /\ \A o \in OutPinsOf(gpio_pins) : chan[o] = LOW

\* C7: when start() has returned control, teardown has run.
C7_TeardownOnEveryExit ==
    pc = "exited" => cleanups >= 1 /\ stops >= 1

\* C8: in a run that ends with the destruction of the controller, each
\* teardown action was performed exactly once.
C8_TeardownExactlyOnce ==
    (pc = "dead" /\ constructed /\ delCaller = "gc") =>
        /\ cleanups = 1
        /\ stops = 1
        /\ kills = IF _splashproc # None THEN 1 ELSE 0

\* C9: teardown releases nothing a second time: once the GPIO has been
\* released, the player stopped or the splash killed, it is not done again.
C9_TeardownIdempotent ==
    [][/\ cleanups >= 1 => cleanups' = cleanups
       /\ stops >= 1 => stops' = stops
       /\ kills >= 1 => kills' = kills]_vars

\* C10: for a non-empty list of existing videos, construction succeeds
\* exactly when there are at most as many videos as input pins; with more
\* videos it fails on the assertion and nothing has been initialised.
C10_ConstructIffEnoughPins ==
    (pc # "ctor" /\ \A k \in 1..Len(videos) : videos[k] \in ExistingFiles) =>
        /\ constructed <=> Len(videos) <= Len(in_pins)
        /\ Len(videos) > Len(in_pins) =>
             /\ error = "AssertionError"
             /\ pc \in {"ctor_failed", "dead"}
             /\ player_state = "NothingSpecial"
             /\ \A p \in AllPins : chan[p] = "unset"

\* Construction has failed on one video too many, all of them on disk.
C10_Witness ==
    /\ pc = "ctor_failed" /\ error = "AssertionError" /\ ~constructed
    /\ Len(videos) = Len(in_pins) + 1
    /\ \A k \in 1..Len(videos) : videos[k] \in ExistingFiles

\* The fields of pair k of a --gpio-pins string.
FieldsOf(s, k) == Split(Split(s, ",")[k], ":")

\* Every pair of the string is IN or IN:OUT with decimal fields.
WellFormed(s) ==
    \A k \in 1..Len(Split(s, ",")) :
        /\ Len(FieldsOf(s, k)) \in {1, 2}
        /\ \A j \in 1..Len(FieldsOf(s, k)) : IsInt(FieldsOf(s, k)[j])

\* C15: for a string of IN[:OUT] pairs, parsing fails when an input pin
\* occurs in two pairs; when it succeeds the result has one entry per pair,
\* in the order of the string, with distinct input pins, each mapped to its
\* OUT value, or to None when the pair has no OUT field.
C15_ParseMapsEachInputOnce ==
    (ppc = "done" /\ WellFormed(values)) =>
        LET n == Len(Split(values, ","))
        IN  /\ (\E a, b \in 1..n :
                   a # b /\ ToInt(FieldsOf(values, a)[1])
                              = ToInt(FieldsOf(values, b)[1]))
                 => (perror # None /\ ~stored)
            /\ stored =>
                 /\ perror = None
                 /\ Len(namespace) = n
                 /\ \A a, b \in 1..n :
                        namespace[a].in = namespace[b].in => a = b
                 /\ \A k \in 1..n :
                        /\ namespace[k].in = ToInt(FieldsOf(values, k)[1])
                        /\ namespace[k].out =
                             IF Len(FieldsOf(values, k)) = 2
                             THEN ToInt(FieldsOf(values, k)[2]) ELSE NoPin

\* Two pairs were parsed, one with an output pin and one without.
C15_Witness ==
    /\ ppc = "done" /\ stored /\ WellFormed(values)
    /\ Len(namespace) = 2
    /\ namespace[1].in > namespace[2].in
    /\ \E k \in 1..2 : namespace[k].out = NoPin
    /\ \E k \in 1..2 : namespace[k].out # NoPin

\* C16: a string with a pair that is not IN or IN:OUT is rejected: parsing
\* ends in an error and the namespace is left unset.
C16_MalformedRejected ==
    (ppc = "done" /\ ~WellFormed(values)) => (perror # None /\ ~stored)

C12_SwitchNeverRaises ==
    \A t \in Threads :
        (constructed /\ cleanups = 0 /\ tpc[t] = "release")
            => raised[t] = None

\* The configured output pins at level HIGH.
HighPins == {p \in OutPinsOf(gpio_pins) : chan[p] = HIGH}

\* C13 as stated: at most one output pin is HIGH in every state, the states
\* between the writes of an output loop included.
C13_AtMostOneHighAlways == Cardinality(HighPins) <= 1

\* C13: at most one output pin is HIGH whenever no switch_vid call is inside
\* its output loop; inside the loop the only pins that can be HIGH are the
\* pressed pin's output and pins that were HIGH when the call began.
C13_AtMostOneHighOutsideLoop ==
    /\ (\A t \in Threads : tpc[t] # "outputs") => Cardinality(HighPins) <= 1
    /\ \A t \in Threads : tpc[t] = "outputs" =>
           \A p \in HighPins : p = OutOf(tpin[t]) \/ entry_chan[p] = HIGH

\* A call has finished its output loop and moved the light from one output
\* pin to another.
C13_Witness ==
    \E t \in Threads :
        /\ tpc[t] = "switch"
        /\ HighPins = {OutOf(tpin[t])}
        /\ \E p \in OutPinsOf(gpio_pins) :
               p # OutOf(tpin[t]) /\ entry_chan[p] = HIGH

\* C14: start() goes on from its autostart step to the registration of the
\* callbacks unless it is interrupted, with the splash viewer launched when
\* autostart and a splash image are set and with the first video active and
\* no callback registered yet when autostart is set without a splash image;
\* when it then reaches the idle loop every input pin has its callback, and
\* unless autostart ran the switch no video is active and every output is LOW.
C14_StateAtIdleLoop ==
    [][ /\ (pc \in {"autostart", "autostart_call"}
              /\ pc' \notin {"autostart", "autostart_call"}
              /\ error' # "KeyboardInterrupt")
           => /\ pc' = "register"
              /\ events' = {}
              /\ (autostart /\ splash # None) =>
                     (_splashproc' # None /\ _active_vid' = None)
              /\ (autostart /\ splash = None) =>
                     (_splashproc' = None /\ _active_vid' = videos[1])
              /\ ~autostart => (_splashproc' = None /\ _active_vid' = None)
        /\ (pc = "register" /\ pc' = "sleep")
           => /\ events' = {in_pins[k] : k \in 1..Len(in_pins)}
              /\ (autostart /\ splash = None) => _active_vid' = videos[1]
              /\ ~(autostart /\ splash = None) =>
                     /\ _active_vid' = None
                     /\ \A p \in OutPinsOf(gpio_pins) : chan'[p] = LOW
      ]_vars

\* C17: while start() is between polls and no switch_vid call is inside its
\* body, the outputs agree with the active video: with no active video every
\* output is LOW, and with video V active some input pin selects V, its
\* output (if it has one) is HIGH and every other output is LOW.
C17_OutputsAgreeWithActiveVid ==
    (constructed /\ cleanups = 0 /\ pc \in {"register", "sleep"}
       /\ \A t \in Threads : ~InBody(t))
    => IF _active_vid = None
       THEN \A p \in OutPinsOf(gpio_pins) : chan[p] = LOW
       ELSE \E k \in 1..Len(in_pins) :
               /\ Resolved(in_pins[k]) = _active_vid
               /\ \A p \in OutPinsOf(gpio_pins) :
                      chan[p] = IF p = gpio_pins[k].out THEN HIGH ELSE LOW

\* C18: once a teardown has completed the player is not playing and every
\* GPIO channel stays released, whatever switch_vid calls were under way.
C18_StoppedIsTerminal ==
    stops >= 1 =>
        /\ player_state # "Playing"
        /\ \A p \in AllPins : chan[p] = "unset"

\* C19: without loop and without restart_on_press, a switch_vid call that
\* reaches its lookup after the stream has ended issues stop, load and play
\* and records the pressed pin's video, whichever pin was pressed.
C19_PressAfterEndStartsAfresh ==
    [][ \A t \in Threads :
          (/\ tpc[t] = "switch" /\ tpc'[t] = "release"
           /\ ~loop /\ ~restart_on_press
           /\ player_state = "Ended"
           /\ cleanups = 0
           /\ Resolved(tpin[t]) # None)
          => /\ player_state' = "Playing"
             /\ _active_vid' = Resolved(tpin[t])
             /\ cmds' = cmds \o <<"stop", "load", "play">>
      ]_vars

\* C20 as stated: under weak fairness of the threads a callback waiting for
\* the mutex eventually enters the body of switch_vid, unless the process ends.
C20_WaitingEventuallyEnters ==
    \A t \in Callbacks :
        (tpc[t] = "acquire") ~> (InBody(t) \/ pc = "dead")

\* C20: under weak fairness of the threads every call that has entered the
\* body of switch_vid eventually leaves it, and the mutex, once held, is
\* eventually free again, also when the body raised - unless the process
\* ends first.
C20_BodyLeftAndMutexReleased ==
    /\ \A t \in Threads : InBody(t) ~> (~InBody(t) \/ pc = "dead")
    /\ (_mutex # Unlocked) ~> (_mutex = Unlocked \/ pc = "dead")

\* One callback waits for the mutex while another is about to leave the body
\* with an exception.
C20_Witness ==
    \E t, u \in Callbacks :
        /\ t # u
        /\ tpc[t] = "acquire"
        /\ tpc[u] = "release" /\ raised[u] # None /\ _mutex = u
====
